---- MODULE Spec2Model ----
(***************************************************************************)
(* The Room Store of the annotation backend: DisentanglementService        *)
(* (app/services/disentanglement.py) over the pydantic models of           *)
(* app/models/disentanglement.py.                                          *)
(*                                                                         *)
(* Representation.  A Python str is a tuple of tokens (<<>> is ''), so     *)
(* that f-strings, Path.stem and the export_ prefix are concatenations.    *)
(* An Optional[X] is <<>> for None and <<x>> for a value x.  A datetime is *)
(* a natural number of clock ticks; its text form str(datetime), which     *)
(* json.dump(default=str) and csv.DictWriter write, is the string          *)
(* <<"ts", digit>>.  A file path is [dir, name, ext]; name is Path.stem.   *)
(***************************************************************************)
EXTENDS Integers, Sequences, FiniteSets, TLC

VARIABLES
    rooms,   \* self.disentanglement_rooms: room_id -> DisentanglementChatRoom
    files,   \* the file system: path -> file content
    clock,   \* what datetime.now() returns
    result   \* the outcome of the last Room Store operation

vars == <<rooms, files, clock, result>>

----------------------------------------------------------------------------
\* Bounds of the model.

\* The clock: every request that changes the store or the directory takes
\* one tick, and datetime.now() is the tick it runs at.  MaxClock bounds how
\* many such requests a run makes.
MaxClock == 4

----------------------------------------------------------------------------
\* Optional values and strings.

None == <<>>

Some(x) == <<x>>

IsNone(o) == o = <<>>

Val(o) == o[1]

EmptyStr == <<>>

Str(tok) == <<tok>>

\* Python truthiness of an Optional[str]: None and '' are falsy.
Truthy(o) == ~IsNone(o) /\ Val(o) # EmptyStr

\* a or b, on Optional[str].
OrElse(o, dflt) == IF Truthy(o) THEN o ELSE Some(dflt)

\* str.lower(), token by token.
LowerTok(tok) ==
    CASE tok = "None" -> "none"
      [] tok = "NULL" -> "null"
      [] tok = "Null" -> "null"
      [] OTHER -> tok

Lower(s) == [i \in 1..Len(s) |-> LowerTok(s[i])]

\* str.strip(): leading and trailing blanks removed.
RECURSIVE LStrip(_)
LStrip(s) == IF s # <<>> /\ Head(s) = " " THEN LStrip(Tail(s)) ELSE s

RECURSIVE RStrip(_)
RStrip(s) ==
    IF s # <<>> /\ s[Len(s)] = " " THEN RStrip(SubSeq(s, 1, Len(s) - 1)) ELSE s

Strip(s) == RStrip(LStrip(s))

\* str(datetime) and its parse by pydantic.
Digits == <<"0", "1", "2", "3", "4", "5", "6", "7", "8", "9">>

TsText(n) == <<"ts", Digits[n + 1]>>

IsTsText(s) == Len(s) = 2 /\ s[1] = "ts" /\ \E n \in 1..Len(Digits) : Digits[n] = s[2]

ParseTs(s) == (CHOOSE n \in 1..Len(Digits) : Digits[n] = s[2]) - 1

----------------------------------------------------------------------------
\* Paths.

DataDir == "data/chatrooms"

Path(dir, name, ext) == [dir |-> dir, name |-> name, ext |-> ext]

\* str(path), as the f-string "Imported from {file_path}" sees it.
PathStr(p) == <<p.dir, "/">> \o p.name \o <<".", p.ext>>

\* Path(file_path).stem
Stem(p) == p.name

\* self.data_dir / f"{room.room_id}.json"
RoomFile(room_id) == Path(DataDir, room_id, "json")

\* self.data_dir / f"export_{room_id}.{format}"
ExportFile(room_id, format) == Path(DataDir, <<"export_">> \o room_id, format)

----------------------------------------------------------------------------
\* The records: DisentangledTurn and DisentanglementChatRoom.

Turn(user_id, turn_id, turn_text, reply_to_turn, thread_id, annotator_id, annotation_timestamp, annotation_notes) ==
    [user_id |-> user_id, turn_id |-> turn_id, turn_text |-> turn_text,
     reply_to_turn |-> reply_to_turn, thread_id |-> thread_id,
     annotator_id |-> annotator_id,
     annotation_timestamp |-> annotation_timestamp,
     annotation_notes |-> annotation_notes]

ChatRoom(room_id, turns) == [room_id |-> room_id, turns |-> turns]

----------------------------------------------------------------------------
\* JSON: json.dump(room.dict(), f, default=str) and parse_obj.

\* turn.dict() under default=str: a JSON object whose every field is present,
\* the datetime as its text.  A field of a JSON object is Optional: null or
\* absent is None.
DumpTurn(t) ==
    [t EXCEPT !.user_id = Some(@), !.turn_id = Some(@), !.turn_text = Some(@),
              !.annotation_timestamp =
                  IF IsNone(@) THEN None ELSE Some(TsText(Val(@)))]

\* indent is TRUE for json.dump(..., indent=2): a document of several lines.
DumpRoom(room, indent) ==
    [kind |-> "json", indent |-> indent, room_id |-> room.room_id,
     turns |-> [i \in 1..Len(room.turns) |-> DumpTurn(room.turns[i])]]

\* DisentangledTurn.parse_obj raises ValidationError when a required field is
\* missing or the timestamp is no datetime text.
TurnValid(j) ==
    /\ ~IsNone(j.user_id)
    /\ ~IsNone(j.turn_id)
    /\ ~IsNone(j.turn_text)
    /\ IF IsNone(j.annotation_timestamp) THEN TRUE
       ELSE IsTsText(Val(j.annotation_timestamp))

ParseTurn(j) ==
    Turn(Val(j.user_id), Val(j.turn_id), Val(j.turn_text), j.reply_to_turn,
         j.thread_id, j.annotator_id,
         IF IsNone(j.annotation_timestamp) THEN None
         ELSE Some(ParseTs(Val(j.annotation_timestamp))),
         j.annotation_notes)

\* DisentanglementChatRoom.parse_obj(data)
RoomValid(doc) ==
    /\ doc.kind = "json"
    /\ \A i \in 1..Len(doc.turns) : TurnValid(doc.turns[i])

ParseRoom(doc) ==
    ChatRoom(doc.room_id, [i \in 1..Len(doc.turns) |-> ParseTurn(doc.turns[i])])

----------------------------------------------------------------------------
\* CSV: csv.DictReader and csv.DictWriter.

ExportColumns ==
    <<"user_id", "turn_id", "turn_text", "reply_to_turn", "thread_id",
      "annotator_id", "annotation_timestamp", "annotation_notes">>

\* DictWriter writes None as '' and a datetime as its text.
CsvCell(o) == IF IsNone(o) THEN EmptyStr ELSE Val(o)

CsvRow(t) ==
    LET d == DumpTurn(t)
    IN  [c \in {ExportColumns[i] : i \in 1..Len(ExportColumns)} |-> CsvCell(d[c])]

DumpCsv(room) ==
    [kind |-> "csv", header |-> ExportColumns,
     rows |-> [i \in 1..Len(room.turns) |-> CsvRow(room.turns[i])]]

\* What DictReader makes of a file.  A JSON document read as CSV has its
\* first line as the header: written on one line it has no rows, written
\* indented its further lines are rows without the required columns.
CsvView(content) ==
    IF content.kind = "csv"
    THEN [header |-> content.header, rows |-> content.rows]
    ELSE [header |-> <<"{">>,
          rows |-> IF content.indent
                   THEN <<[c \in {"{"} |-> Str("\"room_id\"")]>>
                   ELSE <<>>]

----------------------------------------------------------------------------
\* import_chatroom: the two parsers.  Each yields [ok, turns]; ok = FALSE is
\* an exception raised before the store is touched.

Failed == [ok |-> FALSE, turns |-> <<>>]

ThreadColumnVariants == <<"thread_id", "thread", "thread_num", "thread_number">>

InHeader(col, header) == \E i \in 1..Len(header) : header[i] = col

\* The first variant the header has, or None.
ThreadColumn(header) ==
    LET hits == {i \in 1..Len(ThreadColumnVariants) :
                    InHeader(ThreadColumnVariants[i], header)}
    IN  IF hits = {} THEN None
        ELSE Some(ThreadColumnVariants[CHOOSE i \in hits : \A k \in hits : i <= k])

\* row.get(col)
RowGet(row, col) == IF col \in DOMAIN row THEN Some(row[col]) ELSE None

\* existing_thread of a row
ExistingThread(row, thread_column) ==
    IF ~IsNone(thread_column) /\ Truthy(RowGet(row, Val(thread_column)))
    THEN LET stripped == Strip(row[Val(thread_column)])
         IN  IF Lower(stripped) \in {EmptyStr, Str("none"), Str("null")}
             THEN None
             ELSE Some(stripped)
    ELSE None

ImportedNote(path) == <<"Imported from ">> \o PathStr(path)

CsvTurn(row, thread_column, path, now) ==
    LET existing_thread == ExistingThread(row, thread_column)
    IN  Turn(row["user_id"], row["turn_id"], row["turn_text"],
             RowGet(row, "reply_to_turn"),
             existing_thread,
             IF Truthy(existing_thread) THEN Some(Str("imported")) ELSE None,
             IF Truthy(existing_thread) THEN Some(now) ELSE None,
             IF Truthy(existing_thread) THEN Some(ImportedNote(path)) ELSE None)

ImportCsv(content, path, now) ==
    LET view == CsvView(content)
        thread_column == ThreadColumn(view.header)
    IN  IF \A i \in 1..Len(view.rows) :
               {"user_id", "turn_id", "turn_text"} \subseteq DOMAIN view.rows[i]
        THEN [ok |-> TRUE,
              turns |-> [i \in 1..Len(view.rows) |->
                            CsvTurn(view.rows[i], thread_column, path, now)]]
        ELSE Failed

\* The json branch's fill of a parsed turn.
FillImported(turn, path, now) ==
    IF Truthy(turn.thread_id)
    THEN [turn EXCEPT
            !.annotator_id = OrElse(@, Str("imported")),
            !.annotation_timestamp = IF IsNone(@) THEN Some(now) ELSE @,
            !.annotation_notes = OrElse(@, ImportedNote(path))]
    ELSE turn

ImportJson(content, path, now) ==
    IF content.kind = "json" /\ \A i \in 1..Len(content.turns) : TurnValid(content.turns[i])
    THEN [ok |-> TRUE,
          turns |-> [i \in 1..Len(content.turns) |->
                        FillImported(ParseTurn(content.turns[i]), path, now)]]
    ELSE Failed

\* if format == "csv": ... else:  # json
ParseSource(content, path, format, now) ==
    IF format = "csv" THEN ImportCsv(content, path, now)
    ELSE ImportJson(content, path, now)

\* sum(1 for turn in turns if turn.thread_id is not None)
CountAssigned(turns) == Cardinality({i \in 1..Len(turns) : ~IsNone(turns[i].thread_id)})

----------------------------------------------------------------------------
\* Dictionaries.

Put(m, k, v) == [x \in DOMAIN m \cup {k} |-> IF x = k THEN v ELSE m[x]]

Remove(m, k) == [x \in DOMAIN m \ {k} |-> m[x]]

----------------------------------------------------------------------------
\* get_thread_summary and list_chatrooms.

\* A grouping that starts the thread's list anew at every turn of the thread.
RECURSIVE GroupThreadsAnew(_, _)
GroupThreadsAnew(turns, threads) ==
    IF turns = <<>> THEN threads
    ELSE LET turn == Head(turns)
         IN  GroupThreadsAnew(Tail(turns),
                 IF Truthy(turn.thread_id)
                 THEN Put(threads, Val(turn.thread_id), <<turn.turn_id>>)
                 ELSE threads)

\* One pass of the loop of get_thread_summary over the turns left.
RECURSIVE GroupThreads(_, _)
GroupThreads(turns, threads) ==
    IF turns = <<>> THEN threads
    ELSE LET turn == Head(turns)
             keyed == IF Val(turn.thread_id) \notin DOMAIN threads
                      THEN Put(threads, Val(turn.thread_id), <<>>)
                      ELSE threads
         IN  GroupThreads(Tail(turns),
                 IF Truthy(turn.thread_id)
                 THEN [keyed EXCEPT ![Val(turn.thread_id)] = Append(@, turn.turn_id)]
                 ELSE threads)

ThreadSummary(room) ==
    LET threads == GroupThreads(room.turns, <<>>)
    IN  [room_id |-> room.room_id,
         thread_count |-> Cardinality(DOMAIN threads),
         threads |-> threads]

\* One entry of list_chatrooms.
RoomSummary(room_id, room) ==
    [room_id |-> room_id,
     turn_count |-> Len(room.turns),
     annotated_turns |-> CountAssigned(room.turns),
     thread_count |-> Cardinality({room.turns[i].thread_id :
                          i \in {k \in 1..Len(room.turns) : ~IsNone(room.turns[k].thread_id)}})]

----------------------------------------------------------------------------
\* The source files that requests name (outside the store directory).

InDir == "in"

R1 == Str("r1")

R2 == Str("r2")

Bad == Str("bad")

CsvLine(user_id, turn_id, turn_text, reply_to_turn, thread) ==
    [c \in {"user_id", "turn_id", "turn_text", "reply_to_turn", "thread"} |->
        CASE c = "user_id" -> user_id
          [] c = "turn_id" -> turn_id
          [] c = "turn_text" -> turn_text
          [] c = "reply_to_turn" -> reply_to_turn
          [] OTHER -> thread]

\* in/r1.csv: a thread column named thread; the turns (t1,A), (t2,B), (t3,A)
\* and t4, whose cell is " None".
R1Csv ==
    [kind |-> "csv",
     header |-> <<"user_id", "turn_id", "turn_text", "reply_to_turn", "thread">>,
     rows |-> <<CsvLine(Str("u1"), Str("t1"), Str("hi"), EmptyStr, Str("A")),
                CsvLine(Str("u2"), Str("t2"), Str("yo"), Str("t1"), Str("B")),
                CsvLine(Str("u1"), Str("t3"), Str("ok"), Str("t1"), <<"A", " ">>),
                CsvLine(Str("u2"), Str("t4"), Str("bye"), EmptyStr, <<" ", "None">>)>>]

\* in/r1.json: other turns in another order; t2 has a thread and nothing else,
\* t3 has an annotator and no thread.
R1Json ==
    [kind |-> "json", indent |-> FALSE, room_id |-> Str("other"),
     turns |-> <<
        [user_id |-> Some(Str("u2")), turn_id |-> Some(Str("t2")),
         turn_text |-> Some(Str("yo")), reply_to_turn |-> None,
         thread_id |-> Some(Str("B")), annotator_id |-> None,
         annotation_timestamp |-> None, annotation_notes |-> None],
        [user_id |-> Some(Str("u3")), turn_id |-> Some(Str("t3")),
         turn_text |-> Some(Str("ok")), reply_to_turn |-> None,
         thread_id |-> None, annotator_id |-> Some(Str("bob")),
         annotation_timestamp |-> Some(TsText(0)), annotation_notes |-> None]>>]

\* in/r2.json: an empty thread_id, and the same turn_id twice.
R2Json ==
    [kind |-> "json", indent |-> TRUE, room_id |-> R2,
     turns |-> <<
        [user_id |-> Some(Str("u1")), turn_id |-> Some(Str("t1")),
         turn_text |-> Some(Str("hi")), reply_to_turn |-> None,
         thread_id |-> Some(EmptyStr), annotator_id |-> None,
         annotation_timestamp |-> None, annotation_notes |-> None],
        [user_id |-> Some(Str("u1")), turn_id |-> Some(Str("t1")),
         turn_text |-> Some(Str("hi")), reply_to_turn |-> None,
         thread_id |-> Some(Str("A")), annotator_id |-> Some(EmptyStr),
         annotation_timestamp |-> None, annotation_notes |-> None]>>]

\* in/bad.csv: no turn_text column.
BadCsv ==
    [kind |-> "csv", header |-> <<"user_id", "turn_id">>,
     rows |-> <<[c \in {"user_id", "turn_id"} |-> Str("x")]>>]

\* in/bad.json: a turn without user_id.
BadJson ==
    [kind |-> "json", indent |-> TRUE, room_id |-> Bad,
     turns |-> <<
        [user_id |-> None, turn_id |-> Some(Str("t1")),
         turn_text |-> Some(Str("hi")), reply_to_turn |-> None,
         thread_id |-> None, annotator_id |-> None,
         annotation_timestamp |-> None, annotation_notes |-> None]>>]

InputFiles ==
    [p \in {Path(InDir, R1, "csv"), Path(InDir, R1, "json"),
            Path(InDir, R2, "json"), Path(InDir, Bad, "csv"),
            Path(InDir, Bad, "json")} |->
        CASE p = Path(InDir, R1, "csv") -> R1Csv
          [] p = Path(InDir, R1, "json") -> R1Json
          [] p = Path(InDir, R2, "json") -> R2Json
          [] p = Path(InDir, Bad, "csv") -> BadCsv
          [] OTHER -> BadJson]

\* A path no file is at.
MissingPath == Path(InDir, Str("gone"), "csv")

\* The request inputs.
ImportFormats == {"csv", "json", "xml"}

ExportFormats == {"csv", "json"}

TurnIds == {Str("t1"), Str("t9")}

AnnotatorIds == {Str("ann")}

ThreadIds == {None, Some(Str("A")), Some(EmptyStr)}

Notes == {None, Some(Str("note"))}

\* The room ids a request may name: every name a file or a room has.
RequestIds == {p.name : p \in DOMAIN files} \cup DOMAIN rooms

----------------------------------------------------------------------------
\* The outcome of an operation: what it returned, or the exception it raised
\* ("not_found" is HTTPException 404, "error" any other exception).

Outcome(op, args, status, value) ==
    [op |-> op, args |-> args, status |-> status, value |-> value]

\* No request is being served.
Idle == Outcome("idle", <<>>, "ok", <<>>)

\* datetime.now() of the request being served.
Now == clock + 1

----------------------------------------------------------------------------
\* Startup: __init__ and _load_rooms.

StoreJsonFiles(fs) == {p \in DOMAIN fs : p.dir = DataDir /\ p.ext = "json"}

\* The mappings _load_rooms can return: glob yields the files in an order the
\* file system chooses, and a later file of the same room_id replaces an
\* earlier one.
LoadRooms(fs) ==
    LET ids == {fs[p].room_id : p \in StoreJsonFiles(fs)}
        Candidates(id) == {ParseRoom(fs[p]) :
                              p \in {q \in StoreJsonFiles(fs) : fs[q].room_id = id}}
    IN  {m \in [ids -> UNION {Candidates(id) : id \in ids}] :
            \A id \in ids : m[id] \in Candidates(id)}

Init ==
    /\ files = InputFiles
    /\ rooms \in LoadRooms(files)
    /\ clock = 0
    /\ result = Idle

\* The process is stopped and started again: the mapping is loaded anew.
Restart ==
    /\ result = Idle
    /\ \A p \in StoreJsonFiles(files) : RoomValid(files[p])
    /\ rooms' \in LoadRooms(files)
    /\ result' = Outcome("startup", <<>>, "ok", <<>>)
    /\ UNCHANGED <<files, clock>>

----------------------------------------------------------------------------
\* The operations.

\* A _save_room that writes the file only when the room has none yet.
SaveRoomOnce(fs, room) ==
    IF RoomFile(room.room_id) \in DOMAIN fs THEN fs
    ELSE Put(fs, RoomFile(room.room_id), DumpRoom(room, FALSE))

\* _save_room
SaveRoom(fs, room) == Put(fs, RoomFile(room.room_id), DumpRoom(room, FALSE))

\* An import that appends to the turns of a room the id already has.
StoreRoomMerge(m, room_id, chat_room) ==
    IF room_id \in DOMAIN m
    THEN Put(m, room_id, ChatRoom(room_id, m[room_id].turns \o chat_room.turns))
    ELSE Put(m, room_id, chat_room)

\* self.disentanglement_rooms[room_id] = chat_room
StoreRoom(m, room_id, chat_room) == Put(m, room_id, chat_room)

ImportChatroom(file_path, format) ==
    LET args == [file_path |-> file_path, format |-> format]
        parsed == ParseSource(files[file_path], file_path, format, Now)
        room_id == Stem(file_path)
        chat_room == ChatRoom(room_id, parsed.turns)
    IN  IF file_path \notin DOMAIN files \/ ~parsed.ok
        THEN /\ result' = Outcome("import", args, "error", <<>>)
             /\ UNCHANGED <<rooms, files, clock>>
        ELSE /\ clock < MaxClock
             /\ rooms' = StoreRoom(rooms, room_id, chat_room)
             /\ files' = SaveRoom(files, chat_room)
             /\ result' = Outcome("import", args, "ok",
                    [room_id |-> room_id,
                     total_turns |-> Len(parsed.turns),
                     pre_annotated_turns |-> CountAssigned(parsed.turns)])
             /\ clock' = Now

ExportChatroom(room_id, format) ==
    LET args == [room_id |-> room_id, format |-> format]
        output_path == ExportFile(room_id, format)
    IN  IF room_id \notin DOMAIN rooms
        THEN /\ result' = Outcome("export", args, "not_found", <<>>)
             /\ UNCHANGED <<rooms, files, clock>>
        ELSE /\ clock < MaxClock
             /\ files' = Put(files, output_path,
                    IF format = "csv" THEN DumpCsv(rooms[room_id])
                    ELSE DumpRoom(rooms[room_id], TRUE))
             /\ result' = Outcome("export", args, "ok", output_path)
             /\ clock' = Now
             /\ UNCHANGED rooms

GetChatroom(room_id) ==
    /\ result' = IF room_id \notin DOMAIN rooms
                 THEN Outcome("get", [room_id |-> room_id], "not_found", <<>>)
                 ELSE Outcome("get", [room_id |-> room_id], "ok", rooms[room_id])
    /\ UNCHANGED <<rooms, files, clock>>

\* An annotate that keeps the previous notes when none are supplied.
AnnotatedMerge(turn, annotator_id, thread_id, annotation_notes, now) ==
    [turn EXCEPT !.thread_id = thread_id,
                 !.annotator_id = Some(annotator_id),
                 !.annotation_timestamp = Some(now),
                 !.annotation_notes = IF IsNone(annotation_notes) THEN @
                                      ELSE annotation_notes]

\* The four assignments of annotate_turn.
Annotated(turn, annotator_id, thread_id, annotation_notes, now) ==
    [turn EXCEPT !.thread_id = thread_id,
                 !.annotator_id = Some(annotator_id),
                 !.annotation_timestamp = Some(now),
                 !.annotation_notes = annotation_notes]

\* The index of the first turn of the room with that turn_id, or 0.
FindTurn(turns, turn_id) ==
    LET hits == {i \in 1..Len(turns) : turns[i].turn_id = turn_id}
    IN  IF hits = {} THEN 0 ELSE CHOOSE i \in hits : \A k \in hits : i <= k

AnnotateTurn(room_id, turn_id, annotator_id, thread_id, annotation_notes) ==
    LET args == [room_id |-> room_id, turn_id |-> turn_id,
                 annotator_id |-> annotator_id, thread_id |-> thread_id,
                 annotation_notes |-> annotation_notes]
        chat_room == rooms[room_id]
        at == FindTurn(chat_room.turns, turn_id)
        changed == [chat_room EXCEPT !.turns[at] =
                       Annotated(@, annotator_id, thread_id, annotation_notes, Now)]
    IN  IF room_id \notin DOMAIN rooms \/ at = 0
        THEN /\ result' = Outcome("annotate", args, "not_found", <<>>)
             /\ UNCHANGED <<rooms, files, clock>>
        ELSE /\ clock < MaxClock
             /\ rooms' = [rooms EXCEPT ![room_id] = changed]
             /\ files' = SaveRoom(files, changed)
             /\ result' = Outcome("annotate", args, "ok",
                    [annotation_timestamp |-> Now])
             /\ clock' = Now

GetThreadSummary(room_id) ==
    /\ result' = IF room_id \notin DOMAIN rooms
                 THEN Outcome("threads", [room_id |-> room_id], "not_found", <<>>)
                 ELSE Outcome("threads", [room_id |-> room_id], "ok",
                              ThreadSummary(rooms[room_id]))
    /\ UNCHANGED <<rooms, files, clock>>

\* The entries of the list, by room id (the list's order is the mapping's).
ListChatrooms ==
    /\ result' = Outcome("list", <<>>, "ok",
                    [id \in DOMAIN rooms |-> RoomSummary(id, rooms[id])])
    /\ UNCHANGED <<rooms, files, clock>>

\* A delete that unlinks the file and leaves the room in the mapping.
DeleteFileOnly(room_id) ==
    IF room_id \notin DOMAIN rooms
    THEN /\ result' = Outcome("delete", [room_id |-> room_id], "not_found", <<>>)
         /\ UNCHANGED <<rooms, files, clock>>
    ELSE /\ clock < MaxClock
         /\ files' = Remove(files, RoomFile(room_id))
         /\ result' = Outcome("delete", [room_id |-> room_id], "ok", <<>>)
         /\ clock' = Now
         /\ UNCHANGED rooms

DeleteChatroom(room_id) ==
    IF room_id \notin DOMAIN rooms
    THEN /\ result' = Outcome("delete", [room_id |-> room_id], "not_found", <<>>)
         /\ UNCHANGED <<rooms, files, clock>>
    ELSE /\ clock < MaxClock
         /\ rooms' = Remove(rooms, room_id)
         /\ files' = Remove(files, RoomFile(room_id))
         /\ result' = Outcome("delete", [room_id |-> room_id], "ok", <<>>)
         /\ clock' = Now

----------------------------------------------------------------------------
\* The requests: the service serves one at a time, each to completion.

Import ==
    /\ result = Idle
    /\ \E file_path \in DOMAIN files \cup {MissingPath}, format \in ImportFormats :
           ImportChatroom(file_path, format)

Export ==
    /\ result = Idle
    /\ \E room_id \in RequestIds, format \in ExportFormats :
           ExportChatroom(room_id, format)

Get ==
    /\ result = Idle
    /\ \E room_id \in RequestIds : GetChatroom(room_id)

Annotate ==
    /\ result = Idle
    /\ \E room_id \in RequestIds, turn_id \in TurnIds, annotator_id \in AnnotatorIds,
          thread_id \in ThreadIds, annotation_notes \in Notes :
           AnnotateTurn(room_id, turn_id, annotator_id, thread_id, annotation_notes)

Threads ==
    /\ result = Idle
    /\ \E room_id \in RequestIds : GetThreadSummary(room_id)

List ==
    /\ result = Idle
    /\ ListChatrooms

Delete ==
    /\ result = Idle
    /\ \E room_id \in RequestIds : DeleteChatroom(room_id)

\* The outcome goes back to the caller.
Respond ==
    /\ result # Idle
    /\ result' = Idle
    /\ UNCHANGED <<rooms, files, clock>>

\* The service without export: import, annotate, delete and the reads.
NextStore == Import \/ Get \/ Annotate \/ Threads \/ List \/ Delete \/ Respond

SpecStore == Init /\ [][NextStore]_vars

\* The running service.
Next == Import \/ Export \/ Get \/ Annotate \/ Threads \/ List \/ Delete \/ Respond

Spec == Init /\ [][Next]_vars

\* The service across restarts.
NextRestart == Next \/ Restart

SpecRestart == Init /\ [][NextRestart]_vars

----------------------------------------------------------------------------
\* Notions the properties share.

AllTurns == {rooms[id].turns[i] : <<id, i>> \in
                UNION {{<<r, k>> : k \in 1..Len(rooms[r].turns)} : r \in DOMAIN rooms}}

Succeeded(op) == result.op = op /\ result.status = "ok"

\* The turn ids, in room order, of the turns of the room assigned to thread k.
TurnIdsOfThread(room, k) ==
    LET InThread(t) == t.thread_id = Some(k)
        sel == SelectSeq(room.turns, InThread)
    IN  [i \in 1..Len(sel) |-> sel[i].turn_id]

\* The thread ids assigned in the room: the non-empty thread_id values.
AssignedThreads(room) ==
    {Val(room.turns[i].thread_id) :
        i \in {k \in 1..Len(room.turns) : Truthy(room.turns[k].thread_id)}}

\* How many turn ids a grouping holds.
GroupedTurns(threads) ==
    Cardinality(UNION {{<<k, i>> : i \in 1..Len(threads[k])} : k \in DOMAIN threads})

----------------------------------------------------------------------------
\* C1 (SpecStore: import, annotate, delete).  The store directory agrees with
\* the mapping: every room of the mapping has its file <store-dir>/<r>.json,
\* which parses to exactly the room's current record, and the store directory
\* holds no file of a room that is not in the mapping (so none of a room that
\* was deleted and not imported again).
StoreConsistent ==
    /\ \A id \in DOMAIN rooms :
          /\ RoomFile(id) \in DOMAIN files
          /\ RoomValid(files[RoomFile(id)])
          /\ ParseRoom(files[RoomFile(id)]) = rooms[id]
    /\ \A p \in DOMAIN files : p.dir = DataDir => Stem(p) \in DOMAIN rooms

\* A room was deleted while another, annotated, room stays stored.
StoreConsistentWitness ==
    /\ Succeeded("delete")
    /\ \E t \in AllTurns : t.annotator_id = Some(Str("ann"))

\* C2.  A successful annotate leaves the turn it names (the first of the room
\* with that turn_id) with the supplied thread_id and annotator_id, the
\* current time as annotation_timestamp and the supplied notes, None when none
\* were supplied, whatever the turn held before.
AnnotateOverwrites ==
    Succeeded("annotate") =>
        LET a == result.args
            turns == rooms[a.room_id].turns
            turn == turns[FindTurn(turns, a.turn_id)]
        IN  /\ turn.thread_id = a.thread_id
            /\ turn.annotator_id = Some(a.annotator_id)
            /\ turn.annotation_timestamp = Some(clock)
            /\ result.value.annotation_timestamp = clock
            /\ turn.annotation_notes = a.annotation_notes

\* The second request of a run annotates t1 of r1 with neither thread nor
\* notes: the turn came from in/r1.csv with all four fields set.
AnnotateOverwritesWitness ==
    /\ Succeeded("annotate")
    /\ clock = 2
    /\ result.args.room_id = R1
    /\ result.args.thread_id = None
    /\ result.args.annotation_notes = None

\* C3.  Every turn of every room has annotator_id and annotation_timestamp
\* populated if and only if it has a thread assignment (a non-empty
\* thread_id).
AnnotationFieldsTogether ==
    \A t \in AllTurns :
        /\ ~IsNone(t.annotator_id) <=> Truthy(t.thread_id)
        /\ ~IsNone(t.annotation_timestamp) <=> Truthy(t.thread_id)

\* C4.  Importing as JSON a JSON export found in the store directory gives a
\* room whose JSON export has the turns the imported export had.
JsonRoundTrip ==
    [][(result'.op = "import" /\ result'.status = "ok"
          /\ result'.args.format = "json"
          /\ result'.args.file_path.dir = DataDir
          /\ files[result'.args.file_path].kind = "json"
          /\ files[result'.args.file_path].indent)
        => DumpRoom(rooms'[Stem(result'.args.file_path)], TRUE).turns
             = files[result'.args.file_path].turns]_vars

\* C5.  A successful delete takes the room out of the mapping; get, annotate,
\* export, thread_summary and delete on an id that is not in the mapping are
\* rejected as not found and change nothing; and only an import of that id
\* puts an id into the mapping.
DeletedStaysNotFound ==
    [][/\ (result'.op = "delete" /\ result'.status = "ok")
            => result'.args.room_id \notin DOMAIN rooms'
       /\ (result'.op \in {"get", "annotate", "export", "threads", "delete"}
             /\ result'.args.room_id \notin DOMAIN rooms)
            => (result'.status = "not_found" /\ rooms' = rooms /\ files' = files)
       /\ (DOMAIN rooms' \ DOMAIN rooms # {})
            => (result'.op = "import" /\ result'.status = "ok"
                /\ DOMAIN rooms' \ DOMAIN rooms = {Stem(result'.args.file_path)})
      ]_vars

\* get(r1) is rejected as not found when r1 was imported, exported and then
\* deleted (its export is still in the directory).
DeletedStaysNotFoundWitness ==
    /\ result.op = "get"
    /\ result.status = "not_found"
    /\ result.args.room_id = R1
    /\ ExportFile(R1, "json") \in DOMAIN files

\* C6.  A successful import leaves, under the id derived from the source
\* name, exactly the turns parsed from that source, in source order, whatever
\* room the id held before; it adds no other id and changes no other room.
ImportReplaces ==
    [][(result'.op = "import" /\ result'.status = "ok") =>
          LET a == result'.args
              id == Stem(a.file_path)
              parsed == ParseSource(files[a.file_path], a.file_path, a.format, clock')
          IN  /\ DOMAIN rooms' = DOMAIN rooms \cup {id}
              /\ rooms'[id] = ChatRoom(id, parsed.turns)
              /\ Len(rooms'[id].turns) = result'.value.total_turns
              /\ \A other \in DOMAIN rooms \ {id} : rooms'[other] = rooms[other]
      ]_vars

\* in/r1.json was imported over a room r1 that had been exported before: the
\* room now holds the two turns of in/r1.json.
ImportReplacesWitness ==
    /\ Succeeded("import")
    /\ result.args.file_path = Path(InDir, R1, "json")
    /\ result.args.format = "json"
    /\ ExportFile(R1, "csv") \in DOMAIN files
    /\ Len(rooms[R1].turns) = 2

\* C7.  thread_summary of a stored room has one key per thread id assigned in
\* the room, under each key the turn ids of the turns of that thread in room
\* order (so every assigned turn once, the others nowhere), and thread_count
\* is the number of keys.
SummaryGroups ==
    Succeeded("threads") =>
        LET room == rooms[result.args.room_id]
            summary == result.value
        IN  /\ summary.room_id = result.args.room_id
            /\ DOMAIN summary.threads = AssignedThreads(room)
            /\ \A k \in DOMAIN summary.threads :
                  summary.threads[k] = TurnIdsOfThread(room, k)
            /\ summary.thread_count = Cardinality(AssignedThreads(room))

\* The summary of the turns (t1,A), (t2,B), (t3,A), (t4,None).
SummaryGroupsWitness ==
    /\ Succeeded("threads")
    /\ Len(rooms[result.args.room_id].turns) = 4
    /\ result.value.thread_count = 2
    /\ DOMAIN result.value.threads = {Str("A"), Str("B")}
    /\ result.value.threads[Str("A")] = <<Str("t1"), Str("t3")>>
    /\ result.value.threads[Str("B")] = <<Str("t2")>>

RestartKeepsRooms ==
    [][result'.op = "startup" => rooms' = rooms]_vars

\* C10.  For every stored room, list reports the thread_count that
\* thread_summary returns and as annotated_turns the number of turn ids in
\* thread_summary's grouping.
ListAgreesWithSummary ==
    result.op = "list" =>
        \A id \in DOMAIN result.value :
            LET summary == ThreadSummary(rooms[id])
            IN  /\ result.value[id].thread_count = summary.thread_count
                /\ result.value[id].annotated_turns = GroupedTurns(summary.threads)

====
